---- MODULE Spec2Model ----
(***************************************************************************)
(* Model of the pinocchio-fundraiser program: the four instruction         *)
(* handlers (Initialize, Contribute, Claim, Refund), the account checks    *)
(* they apply to the caller-supplied account list, and the records and     *)
(* token balances they mutate.  One action per instruction; an             *)
(* instruction that returns an error leaves every account as it was (the   *)
(* runtime discards the writes of a failed transaction); the error each    *)
(* handler returns on an input is the value of its ...Err operator.        *)
(*                                                                         *)
(* u64/i64 values are modelled with Width bits instead of 64, so that the   *)
(* whole range can be explored; every arithmetic step of the handlers goes *)
(* through the checked/wrapping operators below.                           *)
(***************************************************************************)
EXTENDS Integers, Sequences, FiniteSets, TLC

VARIABLES
    fundraise,        \* fundraise PDA (by maker)  -> Fundraise record or NoAccount
    contributor,      \* contributor PDA (by <<maker, authority>>) -> Contributor record or NoAccount
    token,            \* token account address -> balance, or NoToken when the account does not exist
    now,              \* Clock::get().unix_timestamp
    overflow_checks,  \* build profile: TRUE = arithmetic overflow panics, FALSE = it wraps
    rent,             \* wallet -> vault rents it has been credited less those it has paid
    claimed_over,     \* history: the pairs whose record was live when a Claim on their campaign succeeded
    trail             \* history: the first Contribute of a pair just made, and whether its Refund followed

core == <<fundraise, contributor, token>>
vars == <<fundraise, contributor, token, now, overflow_checks, rent, claimed_over, trail>>

-----------------------------------------------------------------------------
(* Bounds of the model *)

Width == 16                      \* bits of the modelled u64 / i64
BalA == 6                        \* initial balance of wallet "A" in mint "m1"
BalB == 2                        \* initial balance of wallet "B" in mint "m1"
WhaleBal0 == 40                  \* initial balance of the outside holder in mint "m1"
WhaleOpen == 80                  \* its balance in mint "m1" where anyone opens and funds token accounts
WhaleDeep == 40                  \* its balance in DeepMint there

Keys == {"A", "B"}               \* wallets: makers and contributors
OneMaker == {"A"}                \* the makers of the one-campaign specification
Depositors == {"W"}              \* outside holders, who never call the program
Holders == Keys \cup Depositors   \* the wallets that hold tokens
Mints == {"m1", "m2"}            \* the mint accounts that exist
RaisedMints == {"m1"}            \* the mint campaigns are opened for with every target
DeepMint == "m2"                 \* a mint with so many decimals that the floor leaves the integer range
DeepTarget == 50000              \* a target above the floor of DeepMint as the wrapped power gives it
DeepTargets == {40, DeepTarget}  \* amount_to_raise payloads of campaigns for DeepMint
NotAMint == "nomint"             \* an account that is not owned by a token program
Instants == {0, 1, 86400, 172800} \* the clock values the model visits
WrapTarget == 2 ^ (Width - 10) + 6 \* a target whose product with the cap's basis points leaves the integer range
Targets == {3, 40, WrapTarget}   \* amount_to_raise payloads
Durations == {1, 2 ^ (Width - 1)} \* duration payloads: one day, and the least one with the top bit set
Amounts == {1, 2, 4, 7}          \* contribute payloads
DepositAmounts == {38}           \* direct token transfers into a vault
OpenDepositAmounts == {40}       \* direct token transfers into any token account of a campaign

-----------------------------------------------------------------------------
(* Program constants *)

MIN_AMOUNT_TO_RAISE == 3
SECONDS_TO_DAYS == 86400
MAX_CONTRIBUTION_PERCENTAGE_BPS == 1000
MAX_BPS == 10000

\* Handler::DISCRIMINATOR of each instruction
INITIALIZE_DISCRIMINATOR == 0
CONTRIBUTE_DISCRIMINATOR == 1
REFUND_DISCRIMINATOR == 2
CLAIM_DISCRIMINATOR == 3

Decimals(mint) == IF mint = "m1" THEN 1 ELSE 11

Modulus == 2 ^ Width
NoAccount == [exists |-> FALSE]
NoToken == -1
NoTrail == [kind |-> "none"]

-----------------------------------------------------------------------------
(* Addresses.  Every address is a triple of strings, so that any two can be
   compared; the derivations are injective, as the hash-based ones are
   taken to be. *)

Wallet(k) == <<"wallet", k, "">>
FundraisePda(maker) == <<"fundraise", maker, "">>
ContributorPda(fund, authority) ==
    IF fund[1] = "fundraise" THEN <<"contributor", fund[2], authority>>
    ELSE <<"none", "", "">>
AssociatedTokenAddress(owner, mint) ==
    IF owner[1] = "wallet" THEN <<"ata_w", owner[2], mint>>
    ELSE IF owner[1] = "fundraise" THEN <<"ata_f", owner[2], mint>>
    ELSE <<"none", "", "">>

FundAddrs == {FundraisePda(m) : m \in Keys}
ContribAddrs == {ContributorPda(f, a) : f \in FundAddrs, a \in Keys}
TokenAddrs == {AssociatedTokenAddress(Wallet(k), mt) : k \in Holders, mt \in Mints}
              \cup {AssociatedTokenAddress(f, mt) : f \in FundAddrs, mt \in Mints}

FundraiseBump(maker) == IF maker = "A" THEN 255 ELSE 254
ContributorBump(maker, authority) == IF maker = authority THEN 253 ELSE 252

-----------------------------------------------------------------------------
(* Integer arithmetic of the handlers *)

InRange(x) == x >= 0 /\ x < Modulus
Wrap(x) == x % Modulus
\* `x as i64` of a u64
AsSigned(x) == IF x >= Modulus \div 2 THEN x - Modulus ELSE x
\* signed division truncates toward zero
TruncDiv(a, b) == IF a >= 0 THEN a \div b ELSE -((-a) \div b)

RECURSIVE Pow(_, _)
Pow(b, e) == IF e = 0 THEN 1 ELSE b * Pow(b, e - 1)

-----------------------------------------------------------------------------
(* Account capability checks *)

TokenExists(a) == a \in TokenAddrs /\ token[a] # NoToken

FundraiseAt(a) == fundraise[a[2]]
ContributorAt(a) == contributor[<<a[2], a[3]>>]

\* the account's owner is this program
ProgramAccountCheck(a) ==
    \/ a \in FundAddrs /\ FundraiseAt(a).exists
    \/ a \in ContribAddrs /\ ContributorAt(a).exists

\* the check left out
SignerAccountCheck_Skipped(ix) == TRUE

SignerAccountCheck(ix) == ix.signed

MintInterfaceCheck(mint) == mint \in Mints

\* AccountLoad::load for each record type: the data length must be the type's
FundraiseLoad(a) == a \in FundAddrs
ContributorLoad(a) == a \in ContribAddrs

\* ProgramAccount::validate on the seeds stored in the record
FundraiseValidate(a) == FundraisePda(FundraiseAt(a).maker) = a
ContributorValidate(a) ==
    ContributorPda(ContributorAt(a).fundraise, ContributorAt(a).authority) = a

\* AssociatedTokenAccount::check: "" when it passes, else the error
AssociatedTokenCheck(account, owner, mint) ==
    IF account # AssociatedTokenAddress(owner, mint) THEN "InvalidAddress"
    ELSE IF ~TokenExists(account) THEN "InvalidAccountOwner"
    ELSE ""

-----------------------------------------------------------------------------
(* Business rules of the handlers, as the code computes them *)

\* amount_to_raise <= MIN_AMOUNT_TO_RAISE.pow(decimals)
BelowMinRaise(amount_to_raise, mint) ==
    amount_to_raise <= Wrap(Pow(MIN_AMOUNT_TO_RAISE, Decimals(mint)))

\* amount <= 1u64.pow(decimals)
ContributionTooSmall(amount, mint) == amount <= Pow(1, Decimals(mint))

\* amount_to_raise * MAX_CONTRIBUTION_PERCENTAGE_BPS / MAX_BPS, in u64
CapProduct(amount_to_raise) == amount_to_raise * MAX_CONTRIBUTION_PERCENTAGE_BPS
ContributionCap(amount_to_raise) == Wrap(CapProduct(amount_to_raise)) \div MAX_BPS

ContributionTooBig(amount, amount_to_raise) == amount > ContributionCap(amount_to_raise)

\* the running total compared inclusively
MaximumContributionsReached_SumInclusive(contributor_amount, amount, amount_to_raise) ==
    \/ contributor_amount > ContributionCap(amount_to_raise)
    \/ Wrap(contributor_amount + amount) >= ContributionCap(amount_to_raise)

\* the check with the running total left out
MaximumContributionsReached_PriorOnly(contributor_amount, amount, amount_to_raise) ==
    contributor_amount > ContributionCap(amount_to_raise)

MaximumContributionsReached(contributor_amount, amount, amount_to_raise) ==
    \/ contributor_amount > ContributionCap(amount_to_raise)
    \/ Wrap(contributor_amount + amount) > ContributionCap(amount_to_raise)

ElapsedDays(f) == TruncDiv(now - f.time_started, SECONDS_TO_DAYS)

\* the condition under which Contribute returns FundraiserEnded
ContributeEnded(f) ==
    now # f.time_started /\ AsSigned(f.duration) > ElapsedDays(f)

\* the condition under which Refund returns FundraiserEnded
RefundEnded(f) == AsSigned(f.duration) < ElapsedDays(f)

\* the comparison made inclusive
ClaimTargetNotMet_Inclusive(vault_amount, f) == vault_amount <= f.amount_to_raise

\* Claim: vault_amount < amount_to_raise
ClaimTargetNotMet(vault_amount, f) == vault_amount < f.amount_to_raise

\* the comparison made strict
RefundTargetMet_Strict(vault_amount, f) == vault_amount > f.amount_to_raise

\* Refund: vault_amount >= amount_to_raise
RefundTargetMet(vault_amount, f) == vault_amount >= f.amount_to_raise

\* an arithmetic step whose exact result x leaves the u64 range aborts the
\* instruction when the build checks overflow, and wraps otherwise
Panics(x) == overflow_checks /\ ~InRange(x)

-----------------------------------------------------------------------------
(* Initialize *)

\* the accounts created if needed instead of required to be new
InitializeErr_InitIfNeeded(ix) ==
    IF ~SignerAccountCheck(ix) THEN "NotSigner"
    ELSE IF ~MintInterfaceCheck(ix.mint) THEN "InvalidAccountOwner"
    ELSE IF FundraisePda(ix.authority) # ix.fundraise THEN "InvalidAddress"
    ELSE IF ix.vault # AssociatedTokenAddress(ix.fundraise, ix.mint) THEN "InvalidSeeds"
    ELSE IF Panics(Pow(MIN_AMOUNT_TO_RAISE, Decimals(ix.mint))) THEN "Panic"
    ELSE IF BelowMinRaise(ix.amount, ix.mint) THEN "BelowMinRaiseAmount"
    ELSE "Ok"

InitializeErr(ix) ==
    IF ~SignerAccountCheck(ix) THEN "NotSigner"
    ELSE IF ~MintInterfaceCheck(ix.mint) THEN "InvalidAccountOwner"
    ELSE IF FundraisePda(ix.authority) # ix.fundraise THEN "InvalidAddress"
    ELSE IF FundraiseAt(ix.fundraise).exists THEN "AccountAlreadyInUse"
    ELSE IF ix.vault # AssociatedTokenAddress(ix.fundraise, ix.mint) THEN "InvalidSeeds"
    ELSE IF TokenExists(ix.vault) THEN "AccountAlreadyInUse"
    ELSE IF Panics(Pow(MIN_AMOUNT_TO_RAISE, Decimals(ix.mint))) THEN "Panic"
    ELSE IF BelowMinRaise(ix.amount, ix.mint) THEN "BelowMinRaiseAmount"
    ELSE "Ok"

\* the two payload fields stored in each other's place
FundraiseSetInner_Swapped(maker, mint_to_raise, amount_to_raise, time_started, duration, bump) ==
    [exists |-> TRUE,
     maker |-> maker,
     mint_to_raise |-> mint_to_raise,
     amount_to_raise |-> duration,
     current_amount |-> 0,
     time_started |-> time_started,
     duration |-> amount_to_raise,
     bump |-> bump]

\* Fundraise::set_inner
FundraiseSetInner(maker, mint_to_raise, amount_to_raise, time_started, duration, bump) ==
    [exists |-> TRUE,
     maker |-> maker,
     mint_to_raise |-> mint_to_raise,
     amount_to_raise |-> amount_to_raise,
     current_amount |-> 0,
     time_started |-> time_started,
     duration |-> duration,
     bump |-> bump]

\* AssociatedTokenAccount::init with the maker as payer: the maker pays the
\* rent of the vault
VaultInitRent(ix) == [rent EXCEPT ![ix.authority] = @ - 1]

InitializeEffect(ix) ==
    /\ fundraise' = [fundraise EXCEPT ![ix.authority] =
           FundraiseSetInner(ix.authority, ix.mint, ix.amount, now, ix.duration,
                             FundraiseBump(ix.authority))]
    /\ token' = [token EXCEPT ![ix.vault] = 0]
    /\ UNCHANGED contributor

-----------------------------------------------------------------------------
(* Contribute *)

\* the new record not starting from zero
ContributorSetInner_NonZero(fund, authority, bump) ==
    [exists |-> TRUE, fundraise |-> fund, authority |-> authority, amount |-> 1,
     bump |-> bump]

\* Contributor::set_inner
ContributorSetInner(fund, authority, bump) ==
    [exists |-> TRUE, fundraise |-> fund, authority |-> authority, amount |-> 0,
     bump |-> bump]

\* the record initialised on every Contribute, existing or not
ContributorInitIfNeeded_AlwaysInit(ix) ==
    ContributorSetInner(ix.fundraise, ix.authority,
                        ContributorBump(ix.fundraise[2], ix.authority))

\* the Contributor record after ProgramAccount::init_if_needed
ContributorInitIfNeeded(ix) ==
    IF ProgramAccountCheck(ix.contributor) THEN ContributorAt(ix.contributor)
    ELSE ContributorSetInner(ix.fundraise, ix.authority,
                             ContributorBump(ix.fundraise[2], ix.authority))

ContributeAccountsErr(ix) ==
    IF ~SignerAccountCheck(ix) THEN "NotSigner"
    ELSE IF ~MintInterfaceCheck(ix.mint) THEN "InvalidAccountOwner"
    ELSE IF ~ProgramAccountCheck(ix.fundraise) THEN "InvalidAccountOwner"
    ELSE IF AssociatedTokenCheck(ix.token_account, Wallet(ix.authority), ix.mint) # ""
        THEN AssociatedTokenCheck(ix.token_account, Wallet(ix.authority), ix.mint)
    ELSE IF AssociatedTokenCheck(ix.vault, ix.fundraise, ix.mint) # ""
        THEN AssociatedTokenCheck(ix.vault, ix.fundraise, ix.mint)
    ELSE IF ContributorPda(ix.fundraise, ix.authority) # ix.contributor THEN "InvalidAddress"
    ELSE "Ok"

ContributeProcessErr(ix) ==
    LET f == FundraiseAt(ix.fundraise)
        c == ContributorInitIfNeeded(ix)
    IN  IF ContributionTooSmall(ix.amount, ix.mint) THEN "ContributionTooSmall"
        ELSE IF ~FundraiseLoad(ix.fundraise) THEN "InvalidAccountData"
        ELSE IF ~FundraiseValidate(ix.fundraise) THEN "InvalidAddress"
        ELSE IF f.mint_to_raise # ix.mint THEN "InvalidMintToRaise"
        ELSE IF Panics(CapProduct(f.amount_to_raise)) THEN "Panic"
        ELSE IF ContributionTooBig(ix.amount, f.amount_to_raise) THEN "ContributionTooBig"
        ELSE IF ContributeEnded(f) THEN "FundraiserEnded"
        ELSE IF c.amount <= ContributionCap(f.amount_to_raise) /\ Panics(c.amount + ix.amount)
            THEN "Panic"
        ELSE IF MaximumContributionsReached(c.amount, ix.amount, f.amount_to_raise)
            THEN "MaximumContributionsReached"
        ELSE IF Panics(f.current_amount + ix.amount) THEN "Panic"
        ELSE IF token[ix.token_account] < ix.amount THEN "InsufficientFunds"
        ELSE IF ~InRange(token[ix.vault] + ix.amount) THEN "Overflow"
        ELSE "Ok"

ContributeErr(ix) ==
    IF ContributeAccountsErr(ix) # "Ok" THEN ContributeAccountsErr(ix)
    ELSE ContributeProcessErr(ix)

\* the record's amount overwritten with the payload instead of added to
ContributeEffect_Overwrites(ix) ==
    LET f == FundraiseAt(ix.fundraise)
        c == ContributorInitIfNeeded(ix)
    IN  /\ fundraise' = [fundraise EXCEPT ![ix.fundraise[2]].current_amount =
                            Wrap(f.current_amount + ix.amount)]
        /\ contributor' = [contributor EXCEPT ![<<ix.contributor[2], ix.contributor[3]>>] =
                            [c EXCEPT !.amount = ix.amount]]
        /\ token' = [token EXCEPT ![ix.token_account] = @ - ix.amount,
                                  ![ix.vault] = @ + ix.amount]

ContributeEffect(ix) ==
    LET f == FundraiseAt(ix.fundraise)
        c == ContributorInitIfNeeded(ix)
    IN  /\ fundraise' = [fundraise EXCEPT ![ix.fundraise[2]].current_amount =
                            Wrap(f.current_amount + ix.amount)]
        /\ contributor' = [contributor EXCEPT ![<<ix.contributor[2], ix.contributor[3]>>] =
                            [c EXCEPT !.amount = Wrap(c.amount + ix.amount)]]
        /\ token' = [token EXCEPT ![ix.token_account] = @ - ix.amount,
                                  ![ix.vault] = @ + ix.amount]

-----------------------------------------------------------------------------
(* Claim *)

\* AssociatedTokenAccount::init_if_needed(maker_token_account, mint, maker, maker):
\* "" when the account is, or has been made, the maker's associated account
MakerTokenInitIfNeeded(ix) ==
    IF ix.token_account # AssociatedTokenAddress(Wallet(ix.authority), ix.mint)
    THEN "InvalidSeeds"
    ELSE ""

\* the signer required to be the maker stored in the campaign
ClaimAccountsErr_MakerOnly(ix) ==
    IF ~SignerAccountCheck(ix) THEN "NotSigner"
    ELSE IF ~MintInterfaceCheck(ix.mint) THEN "InvalidAccountOwner"
    ELSE IF ~ProgramAccountCheck(ix.fundraise) THEN "InvalidAccountOwner"
    ELSE IF AssociatedTokenCheck(ix.vault, ix.fundraise, ix.mint) # ""
        THEN AssociatedTokenCheck(ix.vault, ix.fundraise, ix.mint)
    ELSE IF MakerTokenInitIfNeeded(ix) # "" THEN MakerTokenInitIfNeeded(ix)
    ELSE IF ix.fundraise \in FundAddrs /\ FundraiseAt(ix.fundraise).maker # ix.authority
        THEN "InvalidAddress"
    ELSE "Ok"

ClaimAccountsErr(ix) ==
    IF ~SignerAccountCheck(ix) THEN "NotSigner"
    ELSE IF ~MintInterfaceCheck(ix.mint) THEN "InvalidAccountOwner"
    ELSE IF ~ProgramAccountCheck(ix.fundraise) THEN "InvalidAccountOwner"
    ELSE IF AssociatedTokenCheck(ix.vault, ix.fundraise, ix.mint) # ""
        THEN AssociatedTokenCheck(ix.vault, ix.fundraise, ix.mint)
    ELSE IF MakerTokenInitIfNeeded(ix) # "" THEN MakerTokenInitIfNeeded(ix)
    ELSE "Ok"

ClaimProcessErr(ix) ==
    LET f == FundraiseAt(ix.fundraise)
        vault_amount == token[ix.vault]
    IN  IF ~FundraiseLoad(ix.fundraise) THEN "InvalidAccountData"
        ELSE IF ClaimTargetNotMet(vault_amount, f) THEN "TargetNotMet"
        ELSE IF ~InRange(token[ix.token_account] + vault_amount) THEN "Overflow"
        ELSE "Ok"

ClaimErr(ix) ==
    IF ClaimAccountsErr(ix) # "Ok" THEN ClaimAccountsErr(ix)
    ELSE ClaimProcessErr(ix)

\* the amount Claim transfers out of the vault
ClaimTransferAmount(vault_amount) == vault_amount

\* the vault closed once it has been paid out
ClaimEffect_ClosesVault(ix) ==
    LET amt == ClaimTransferAmount(token[ix.vault])
    IN  /\ token' = [token EXCEPT ![ix.vault] = NoToken,
                                  ![ix.token_account] = @ + amt]
        /\ UNCHANGED <<fundraise, contributor>>

\* the campaign total cleared together with the vault
ClaimEffect_ResetsRaised(ix) ==
    LET amt == ClaimTransferAmount(token[ix.vault])
    IN  /\ token' = [token EXCEPT ![ix.vault] = @ - amt,
                                  ![ix.token_account] = @ + amt]
        /\ fundraise' = [fundraise EXCEPT ![ix.fundraise[2]].current_amount = 0]
        /\ UNCHANGED contributor

ClaimEffect(ix) ==
    LET amt == ClaimTransferAmount(token[ix.vault])
    IN  /\ token' = [token EXCEPT ![ix.vault] = @ - amt,
                                  ![ix.token_account] = @ + amt]
        /\ UNCHANGED <<fundraise, contributor>>

-----------------------------------------------------------------------------
(* Refund *)

RefundAccountsErr(ix) ==
    IF ~SignerAccountCheck(ix) THEN "NotSigner"
    ELSE IF ~MintInterfaceCheck(ix.mint) THEN "InvalidAccountOwner"
    ELSE IF ~ProgramAccountCheck(ix.fundraise) THEN "InvalidAccountOwner"
    ELSE IF ~ProgramAccountCheck(ix.contributor) THEN "InvalidAccountOwner"
    ELSE IF AssociatedTokenCheck(ix.token_account, Wallet(ix.authority), ix.mint) # ""
        THEN AssociatedTokenCheck(ix.token_account, Wallet(ix.authority), ix.mint)
    ELSE IF AssociatedTokenCheck(ix.vault, ix.fundraise, ix.mint) # ""
        THEN AssociatedTokenCheck(ix.vault, ix.fundraise, ix.mint)
    ELSE "Ok"

\* the checks Refund::process makes on the two records it loads
RefundRecordsErr(ix) ==
    IF ~FundraiseLoad(ix.fundraise) THEN "InvalidAccountData"
    ELSE IF ~FundraiseValidate(ix.fundraise) THEN "InvalidAddress"
    ELSE IF FundraiseAt(ix.fundraise).mint_to_raise # ix.mint THEN "InvalidMintToRaise"
    ELSE IF ~ContributorLoad(ix.contributor) THEN "InvalidAccountData"
    ELSE IF ~ContributorValidate(ix.contributor) THEN "InvalidAddress"
    ELSE "Ok"

RefundProcessErr(ix) ==
    LET f == FundraiseAt(ix.fundraise)
        c == ContributorAt(ix.contributor)
        vault_amount == token[ix.vault]
    IN  IF RefundRecordsErr(ix) # "Ok" THEN RefundRecordsErr(ix)
        ELSE IF RefundEnded(f) THEN "FundraiserEnded"
        ELSE IF RefundTargetMet(vault_amount, f) THEN "TargetMet"
        ELSE IF Panics(f.current_amount - c.amount) THEN "Panic"
        ELSE IF vault_amount < c.amount THEN "InsufficientFunds"
        ELSE "Ok"

RefundErr(ix) ==
    IF RefundAccountsErr(ix) # "Ok" THEN RefundAccountsErr(ix)
    ELSE RefundProcessErr(ix)

\* the vault never closed
RefundClosesVault_Never(vault_amount, contributor_amount) == FALSE

\* whether Refund closes the vault after its transfer
RefundClosesVault(vault_amount, contributor_amount) ==
    vault_amount - contributor_amount = 0

\* the close left out: the record stays as it was
ProgramAccountClose_Skipped(a) == contributor

\* ProgramAccount::close
ProgramAccountClose(a) ==
    [contributor EXCEPT ![<<a[2], a[3]>>] = NoAccount]

\* CloseAccount with destination = the account passed as maker: the rent of
\* a vault that is closed is credited to it
VaultCloseRent(ix) ==
    IF RefundClosesVault(token[ix.vault], ContributorAt(ix.contributor).amount)
    THEN [rent EXCEPT ![ix.maker] = @ + 1]
    ELSE rent

\* the contributor credited without the vault being debited
RefundEffect_VaultKept(ix) ==
    LET f == FundraiseAt(ix.fundraise)
        c == ContributorAt(ix.contributor)
    IN  /\ fundraise' = [fundraise EXCEPT ![ix.fundraise[2]].current_amount =
                            Wrap(f.current_amount - c.amount)]
        /\ token' = [token EXCEPT ![ix.token_account] = @ + c.amount]
        /\ contributor' = ProgramAccountClose(ix.contributor)

RefundEffect(ix) ==
    LET f == FundraiseAt(ix.fundraise)
        c == ContributorAt(ix.contributor)
        vault_amount == token[ix.vault]
    IN  /\ fundraise' = [fundraise EXCEPT ![ix.fundraise[2]].current_amount =
                            Wrap(f.current_amount - c.amount)]
        /\ token' = [token EXCEPT
               ![ix.token_account] = @ + c.amount,
               ![ix.vault] = IF RefundClosesVault(vault_amount, c.amount)
                             THEN NoToken ELSE @ - c.amount]
        /\ contributor' = ProgramAccountClose(ix.contributor)

-----------------------------------------------------------------------------
(* The instructions the model submits.  An instruction is its payload and
   its account list; the caller chooses every account freely.  Each input
   set is the well-formed lists (every derived address the canonical one
   for the chosen signer, mint and campaign, and any Contributor record)
   plus the lists that differ from a well-formed one in a single place. *)

NoAddr == <<"none", "", "">>

\* the first payload byte a client sends for an instruction
Discriminator(op) ==
    CASE op = "Initialize" -> INITIALIZE_DISCRIMINATOR
      [] op = "Contribute" -> CONTRIBUTE_DISCRIMINATOR
      [] op = "Refund" -> REFUND_DISCRIMINATOR
      [] op = "Claim" -> CLAIM_DISCRIMINATOR

Other(k) == CHOOSE o \in Keys : o # k
OtherMint(mt) == CHOOSE o \in Mints : o # mt
UnknownByte == 4                 \* a first payload byte that is no instruction's

Instruction(op, authority, mint, fund, amount, duration) ==
    [op |-> op, data |-> <<Discriminator(op)>>,
     authority |-> authority, signed |-> TRUE, mint |-> mint,
     fundraise |-> fund, contributor |-> ContributorPda(fund, authority),
     token_account |-> AssociatedTokenAddress(Wallet(authority), mint),
     vault |-> AssociatedTokenAddress(fund, mint),
     maker |-> fund[2], amount |-> amount, duration |-> duration]

\* single-place deviations shared by the handlers
Deviations(ix) ==
    { [ix EXCEPT !.data = <<>>],
      [ix EXCEPT !.data = <<UnknownByte>>],
      [ix EXCEPT !.signed = FALSE],
      [ix EXCEPT !.mint = NotAMint],
      [ix EXCEPT !.token_account = AssociatedTokenAddress(Wallet(Other(ix.authority)), ix.mint)],
      [ix EXCEPT !.vault = AssociatedTokenAddress(FundraisePda(Other(ix.fundraise[2])), ix.mint)],
      [ix EXCEPT !.vault = AssociatedTokenAddress(ix.fundraise, OtherMint(ix.mint))],
      [ix EXCEPT !.fundraise = ContributorPda(ix.fundraise, ix.authority)] }

Funds(makers) == {FundraisePda(m) : m \in makers}

InitializeInputs(makers) ==
    LET wf == {Instruction("Initialize", k, mt, FundraisePda(k), t, d) :
                   k \in makers, mt \in RaisedMints, t \in Targets, d \in Durations}
              \cup {Instruction("Initialize", k, DeepMint, FundraisePda(k), t, 1) :
                       k \in makers, t \in DeepTargets}
        base == {ix \in wf : ix.amount = 40 /\ ix.duration = 1 /\ ix.mint = "m1"}
    IN  wf \cup UNION {Deviations(ix) : ix \in base}
           \cup {[ix EXCEPT !.fundraise = FundraisePda(Other(ix.authority))] : ix \in base}

ContributeInputs(makers) ==
    LET wf == {Instruction("Contribute", k, mt, f, a, 0) :
                   k \in Keys, mt \in Mints, f \in Funds(makers), a \in Amounts}
        base == {ix \in wf : ix.amount = 2 /\ ix.mint = "m1"}
    IN  wf \cup UNION {Deviations(ix) : ix \in base}
           \cup {[ix EXCEPT !.contributor = c] : ix \in base, c \in ContribAddrs}

ClaimInputs(makers) ==
    LET wf == {Instruction("Claim", k, mt, f, 0, 0) :
                   k \in Keys, mt \in Mints, f \in Funds(makers)}
        base == {ix \in wf : ix.mint = "m1"}
    IN  wf \cup UNION {Deviations(ix) : ix \in base}

RefundInputs(makers) ==
    LET wf == {Instruction("Refund", k, mt, f, 0, 0) :
                   k \in Keys, mt \in Mints, f \in Funds(makers)}
        any == {[ix EXCEPT !.contributor = c, !.maker = m] :
                   ix \in wf, c \in ContribAddrs, m \in Keys}
        base == {ix \in wf : ix.mint = "m1"}
    IN  any \cup UNION {Deviations(ix) : ix \in base}
            \cup {[ix EXCEPT !.contributor = f] : ix \in base, f \in FundAddrs}

-----------------------------------------------------------------------------
(* State machine *)

Init ==
    /\ fundraise = [m \in Keys |-> NoAccount]
    /\ contributor = [p \in Keys \X Keys |-> NoAccount]
    /\ token = [a \in TokenAddrs |->
                   IF a[1] # "ata_w" THEN NoToken
                   ELSE IF a[3] # "m1" THEN 0
                   ELSE IF a[2] = "A" THEN BalA
                   ELSE IF a[2] = "B" THEN BalB
                   ELSE WhaleBal0]
    /\ now = 0
    /\ overflow_checks \in BOOLEAN
    /\ rent = [k \in Keys |-> 0]
    /\ claimed_over = {}
    /\ trail = NoTrail

\* process_instruction on one instruction.  A handler that returns an error
\* commits nothing (the runtime discards the writes of a failed instruction),
\* so an instruction is a step exactly when its handler returns Ok.
Initialize(ix) ==
    /\ InitializeErr(ix) = "Ok"
    /\ InitializeEffect(ix)
    /\ rent' = VaultInitRent(ix)
    /\ trail' = NoTrail
    /\ UNCHANGED <<now, overflow_checks, claimed_over>>

\* history: a Contribute that creates the record of its pair notes the pair
\* and the campaign total and wallet balance it found
TrailAfterContribute(ix) ==
    IF ProgramAccountCheck(ix.contributor) THEN NoTrail
    ELSE [kind |-> "first",
          pair |-> <<ix.contributor[2], ix.contributor[3]>>,
          again |-> (trail.kind = "undone"
                        /\ trail.pair = <<ix.contributor[2], ix.contributor[3]>>),
          current_amount |-> FundraiseAt(ix.fundraise).current_amount,
          balance |-> token[ix.token_account]]

\* history: the Refund of that pair, by its contributor and on its campaign,
\* coming next
TrailAfterRefund(ix) ==
    IF /\ trail.kind = "first"
       /\ <<ix.contributor[2], ix.contributor[3]>> = trail.pair
       /\ ix.authority = trail.pair[2]
       /\ ix.fundraise = FundraisePda(trail.pair[1])
    THEN [trail EXCEPT !.kind = "undone"]
    ELSE NoTrail

Contribute(ix) ==
    /\ ContributeErr(ix) = "Ok"
    /\ ContributeEffect(ix)
    /\ trail' = TrailAfterContribute(ix)
    /\ UNCHANGED <<now, overflow_checks, rent, claimed_over>>

Claim(ix) ==
    /\ ClaimErr(ix) = "Ok"
    /\ ClaimEffect(ix)
    /\ claimed_over' = claimed_over \cup
           {p \in Keys \X Keys : contributor[p].exists /\ FundraisePda(p[1]) = ix.fundraise}
    /\ trail' = NoTrail
    /\ UNCHANGED <<now, overflow_checks, rent>>

Refund(ix) ==
    /\ RefundErr(ix) = "Ok"
    /\ RefundEffect(ix)
    /\ rent' = VaultCloseRent(ix)
    /\ claimed_over' = claimed_over \ {<<ix.contributor[2], ix.contributor[3]>>}
    /\ trail' = TrailAfterRefund(ix)
    /\ UNCHANGED <<now, overflow_checks>>

\* the arms of process_instruction swapped for the last two instructions
Dispatch_Swapped(data) ==
    IF data = <<>> THEN "InvalidInstructionData"
    ELSE IF Head(data) = INITIALIZE_DISCRIMINATOR THEN "Initialize"
    ELSE IF Head(data) = CONTRIBUTE_DISCRIMINATOR THEN "Contribute"
    ELSE IF Head(data) = CLAIM_DISCRIMINATOR THEN "Refund"
    ELSE IF Head(data) = REFUND_DISCRIMINATOR THEN "Claim"
    ELSE "InvalidInstructionData"

\* process_instruction: the handler instruction_data.split_first() selects
Dispatch(data) ==
    IF data = <<>> THEN "InvalidInstructionData"
    ELSE IF Head(data) = INITIALIZE_DISCRIMINATOR THEN "Initialize"
    ELSE IF Head(data) = CONTRIBUTE_DISCRIMINATOR THEN "Contribute"
    ELSE IF Head(data) = CLAIM_DISCRIMINATOR THEN "Claim"
    ELSE IF Head(data) = REFUND_DISCRIMINATOR THEN "Refund"
    ELSE "InvalidInstructionData"

\* the result process_instruction returns
ProcessInstructionErr(ix) ==
    CASE Dispatch(ix.data) = "Initialize" -> InitializeErr(ix)
      [] Dispatch(ix.data) = "Contribute" -> ContributeErr(ix)
      [] Dispatch(ix.data) = "Claim" -> ClaimErr(ix)
      [] Dispatch(ix.data) = "Refund" -> RefundErr(ix)
      [] OTHER -> Dispatch(ix.data)

\* one arm of process_instruction each
DoInitialize(makers) ==
    \E ix \in InitializeInputs(makers) : Dispatch(ix.data) = "Initialize" /\ Initialize(ix)
DoContribute(makers) ==
    \E ix \in ContributeInputs(makers) : Dispatch(ix.data) = "Contribute" /\ Contribute(ix)
DoClaim(makers) ==
    \E ix \in ClaimInputs(makers) : Dispatch(ix.data) = "Claim" /\ Claim(ix)
DoRefund(makers) ==
    \E ix \in RefundInputs(makers) : Dispatch(ix.data) = "Refund" /\ Refund(ix)

\* the clock sysvar moves forward between instructions
Tick ==
    /\ \E t \in Instants : t > now /\ now' = t
    /\ UNCHANGED <<fundraise, contributor, token, overflow_checks, rent, claimed_over, trail>>

\* a token holder transfers straight into an existing vault through the
\* token program, outside this program
Deposit ==
    /\ \E k \in Depositors, f \in FundAddrs, mt \in Mints, amt \in DepositAmounts :
          LET from == AssociatedTokenAddress(Wallet(k), mt)
              to == AssociatedTokenAddress(f, mt)
          IN  /\ TokenExists(to)
              /\ token[from] >= amt
              /\ token' = [token EXCEPT ![from] = @ - amt, ![to] = @ + amt]
    /\ trail' = NoTrail
    /\ UNCHANGED <<fundraise, contributor, now, overflow_checks, rent, claimed_over>>

\* One campaign (maker "A"), two contributors, the clock moving.
Next ==
    \/ DoInitialize(OneMaker)
    \/ DoContribute(OneMaker)
    \/ DoClaim(OneMaker)
    \/ DoRefund(OneMaker)
    \/ Tick
    \/ Deposit

Spec == Init /\ [][Next]_vars

\* Two campaigns for the same mint, within the first instant of the clock
\* and with no funds entering a vault from outside the program.
NextTwo ==
    \/ DoInitialize(Keys)
    \/ DoContribute(Keys)
    \/ DoRefund(Keys)

SpecTwo == Init /\ [][NextTwo]_vars

\* Two campaigns for the same mint, with funds entering the vaults from
\* outside the program as well.
NextGift ==
    \/ DoInitialize(Keys)
    \/ DoContribute(Keys)
    \/ DoRefund(Keys)
    \/ Deposit

SpecGift == Init /\ [][NextGift]_vars

\* the same wallets, the outside holder holding WhaleOpen of every mint
InitOpen ==
    /\ fundraise = [m \in Keys |-> NoAccount]
    /\ contributor = [p \in Keys \X Keys |-> NoAccount]
    /\ token = [a \in TokenAddrs |->
                   IF a[1] # "ata_w" THEN NoToken
                   ELSE IF a[2] = "W" THEN (IF a[3] = "m1" THEN WhaleOpen ELSE WhaleDeep)
                   ELSE IF a[3] # "m1" THEN 0
                   ELSE IF a[2] = "A" THEN BalA
                   ELSE BalB]
    /\ now = 0
    /\ overflow_checks \in BOOLEAN
    /\ rent = [k \in Keys |-> 0]
    /\ claimed_over = {}
    /\ trail = NoTrail

\* anyone creates, through the associated token program, the token account
\* of an existing campaign for any mint
OpenAccount ==
    /\ \E f \in Funds(OneMaker), mt \in Mints :
          /\ FundraiseAt(f).exists
          /\ token[AssociatedTokenAddress(f, mt)] = NoToken
          /\ token' = [token EXCEPT ![AssociatedTokenAddress(f, mt)] = 0]
    /\ trail' = NoTrail
    /\ UNCHANGED <<fundraise, contributor, now, overflow_checks, rent, claimed_over>>

\* a token holder transfers into any token account a campaign owns
OpenDeposit ==
    /\ \E k \in Depositors, f \in Funds(OneMaker), mt \in Mints, amt \in OpenDepositAmounts :
          LET from == AssociatedTokenAddress(Wallet(k), mt)
              to == AssociatedTokenAddress(f, mt)
          IN  /\ TokenExists(to)
              /\ token[from] >= amt
              /\ token' = [token EXCEPT ![from] = @ - amt, ![to] = @ + amt]
    /\ trail' = NoTrail
    /\ UNCHANGED <<fundraise, contributor, now, overflow_checks, rent, claimed_over>>

\* One campaign within the first instant of the clock, token accounts
\* opened and funded by anyone.
NextOpen ==
    \/ DoInitialize(OneMaker)
    \/ DoContribute(OneMaker)
    \/ DoClaim(OneMaker)
    \/ OpenDeposit
    \/ OpenAccount

SpecOpen == InitOpen /\ [][NextOpen]_vars

\* anyone creates the token account of an existing campaign for a mint other
\* than the campaign's: the vault itself, once closed, is left closed
OpenOther ==
    /\ \E f \in Funds(OneMaker), mt \in Mints :
          /\ FundraiseAt(f).exists
          /\ mt # FundraiseAt(f).mint_to_raise
          /\ token[AssociatedTokenAddress(f, mt)] = NoToken
          /\ token' = [token EXCEPT ![AssociatedTokenAddress(f, mt)] = 0]
    /\ trail' = NoTrail
    /\ UNCHANGED <<fundraise, contributor, now, overflow_checks, rent, claimed_over>>

\* The one campaign with Refund as well, outside parties opening and funding
\* token accounts of the campaign address but never recreating its vault.
NextShut ==
    \/ DoInitialize(OneMaker)
    \/ DoContribute(OneMaker)
    \/ DoRefund(OneMaker)
    \/ DoClaim(OneMaker)
    \/ OpenOther
    \/ OpenDeposit

\* the same wallets, the outside holder holding WhaleDeep of the other mint
\* and nothing of the mint campaigns are opened for
InitShut ==
    /\ fundraise = [m \in Keys |-> NoAccount]
    /\ contributor = [p \in Keys \X Keys |-> NoAccount]
    /\ token = [a \in TokenAddrs |->
                   IF a[1] # "ata_w" THEN NoToken
                   ELSE IF a[2] = "W" THEN (IF a[3] = "m1" THEN 0 ELSE WhaleDeep)
                   ELSE IF a[3] # "m1" THEN 0
                   ELSE IF a[2] = "A" THEN BalA
                   ELSE BalB]
    /\ now = 0
    /\ overflow_checks \in BOOLEAN
    /\ rent = [k \in Keys |-> 0]
    /\ claimed_over = {}
    /\ trail = NoTrail

SpecShut == InitShut /\ [][NextShut]_vars

-----------------------------------------------------------------------------
(* Properties *)

\* the instructions the properties range over: those of either specification
AllContributes == ContributeInputs(Keys)
AllClaims == ClaimInputs(Keys)
AllRefunds == RefundInputs(Keys)
AllInitializes == InitializeInputs(Keys)

\* the live Contributor records
Live == {p \in Keys \X Keys : contributor[p].exists}
LiveOf(maker) == {p \in Live : contributor[p].fundraise = FundraisePda(maker)}

RECURSIVE SumAmount(_)
SumAmount(ps) ==
    IF ps = {} THEN 0
    ELSE LET p == CHOOSE q \in ps : TRUE
         IN  contributor[p].amount + SumAmount(ps \ {p})

\* the vault of the campaign of `maker`
VaultOf(maker) == AssociatedTokenAddress(FundraisePda(maker), fundraise[maker].mint_to_raise)

\* the Refund a contributor submits for its own record, with the canonical accounts
OwnRefund(p) ==
    Instruction("Refund", contributor[p].authority,
                fundraise[p[1]].mint_to_raise, FundraisePda(p[1]), 0, 0)

\* C1: every campaign's raised amount (current_amount) equals the sum of the
\* amounts of the live Contributor records that reference it.
C1_RaisedEqualsContributions ==
    \A m \in Keys :
        fundraise[m].exists => fundraise[m].current_amount = SumAmount(LiveOf(m))

\* C2: every live Contributor record's amount is at most
\* target * MAX_CONTRIBUTION_PERCENTAGE_BPS / MAX_BPS of its campaign.
C2_CapEnforced ==
    \A p \in Live :
        LET f == FundraiseAt(contributor[p].fundraise)
        IN  contributor[p].amount * MAX_BPS
                <= f.amount_to_raise * MAX_CONTRIBUTION_PERCENTAGE_BPS

\* a Contributor record stands exactly at its campaign's cap
C2_Witness ==
    \E p \in Live :
        /\ contributor[p].amount * MAX_BPS =
               FundraiseAt(contributor[p].fundraise).amount_to_raise
                   * MAX_CONTRIBUTION_PERCENTAGE_BPS
        /\ \E ix \in AllContributes :
               /\ ix.contributor = ContributorPda(FundraisePda(p[1]), p[2])
               /\ ContributeErr(ix) = "MaximumContributionsReached"

\* C3: a Refund commits only when its signer is the authority named in the
\* Contributor record it consumes.
C3_RefundOnlyByContributor ==
    [][\A ix \in AllRefunds :
          Refund(ix) => ContributorAt(ix.contributor).authority = ix.authority]_vars

\* the campaign's window has closed, by the rule stated for Contribute
WindowClosed(f) ==
    ~(now = f.time_started \/ f.duration > (now - f.time_started) \div SECONDS_TO_DAYS)

\* C4: once the window has closed with the vault below the target, the Refund
\* of every contributor whose record is live (and whose deposit the vault
\* still holds) succeeds.
C4_RefundAfterWindow ==
    \A p \in Live :
        LET f == fundraise[p[1]]
        IN  (/\ contributor[p].fundraise = FundraisePda(p[1])
             /\ WindowClosed(f)
             /\ TokenExists(VaultOf(p[1]))
             /\ token[VaultOf(p[1])] < f.amount_to_raise
             /\ token[VaultOf(p[1])] >= contributor[p].amount)
            => RefundErr(OwnRefund(p)) = "Ok"

\* C5: a Claim whose accounts pass validation fails with TargetNotMet exactly
\* when the vault balance is below amount_to_raise; otherwise it succeeds,
\* whatever the clock, and it moves the whole vault balance to the signer's
\* token account, leaving the vault at 0.
C5_ClaimOutcome ==
    \A ix \in AllClaims :
        (ClaimAccountsErr(ix) = "Ok" /\ FundraiseLoad(ix.fundraise)) =>
            /\ ClaimErr(ix) = "TargetNotMet"
                  <=> token[ix.vault] < FundraiseAt(ix.fundraise).amount_to_raise
            /\ ClaimErr(ix) \in {"TargetNotMet", "Ok"}

C5_ClaimEffect ==
    \A ix \in AllClaims :
        Claim(ix) =>
            /\ token'[ix.vault] = 0
            /\ token'[ix.token_account] = token[ix.token_account] + token[ix.vault]
            /\ token[ix.vault] >= FundraiseAt(ix.fundraise).amount_to_raise

C5_ClaimGating == [](C5_ClaimOutcome) /\ [][C5_ClaimEffect]_vars

\* a Claim has emptied a vault that had met the target, after the window closed
C5_Witness ==
    /\ fundraise["A"].exists
    /\ WindowClosed(fundraise["A"])
    /\ TokenExists(VaultOf("A")) /\ token[VaultOf("A")] = 0
    /\ \E k \in Keys :
          token[AssociatedTokenAddress(Wallet(k), "m1")] >= fundraise["A"].amount_to_raise

\* the pair a Contributor address stands for
PairOf(a) == <<a[2], a[3]>>

\* C6: a successful Refund destroys the Contributor record it consumed; while
\* a pair has no record every Refund naming it fails; and a record comes into
\* existence only through a successful Contribute of that pair.  So a second
\* Refund for the same pair fails unless a Contribute came in between.
C6_RefundConsumes ==
    \A ix \in AllRefunds :
        Refund(ix) =>
            /\ contributor[PairOf(ix.contributor)].exists
            /\ ~contributor'[PairOf(ix.contributor)].exists

C6_AbsentRecordFails ==
    \A ix \in AllRefunds :
        (ix.contributor \in ContribAddrs /\ ~ContributorAt(ix.contributor).exists)
            => RefundErr(ix) # "Ok"

C6_CreatedByContribute ==
    \A p \in Keys \X Keys :
        (~contributor[p].exists /\ contributor'[p].exists) =>
            \E ix \in AllContributes :
                Contribute(ix) /\ PairOf(ix.contributor) = p /\ ix.authority = p[2]

C6_NoDoubleRefund ==
    /\ [](C6_AbsentRecordFails)
    /\ [][C6_RefundConsumes /\ C6_CreatedByContribute]_vars

\* a Refund has drained and closed the vault of campaign "A": the refunded
\* pair has no record, the refunded wallet has its deposit back, and the same
\* Refund again is rejected
C6_Witness ==
    /\ fundraise["A"].exists /\ ~TokenExists(VaultOf("A"))
    /\ ~contributor[<<"A", "A">>].exists
    /\ token[AssociatedTokenAddress(Wallet("A"), "m1")] = BalA
    /\ RefundErr(Instruction("Refund", "A", "m1", FundraisePda("A"), 0, 0))
           = "InvalidAccountOwner"

\* a well-formed Contribute on an existing campaign, of an amount within the
\* size rules of the code
SizedContributes ==
    {ix \in AllContributes :
        /\ ContributeAccountsErr(ix) = "Ok"
        /\ FundraiseLoad(ix.fundraise)
        /\ FundraiseAt(ix.fundraise).mint_to_raise = ix.mint
        /\ ~ContributionTooSmall(ix.amount, ix.mint)
        /\ ~ContributionTooBig(ix.amount, FundraiseAt(ix.fundraise).amount_to_raise)}

\* C7: a Contribute that reaches the time check passes it exactly when
\* now = time_started or duration > (now - time_started) / SECONDS_TO_DAYS,
\* and fails with FundraiserEnded otherwise.
C7_ContributeWindow ==
    \A ix \in SizedContributes :
        ContributeErr(ix) # "FundraiserEnded"
            <=> ~WindowClosed(FundraiseAt(ix.fundraise))

\* a Refund that has passed the account and record checks
CheckedRefund(ix) == RefundAccountsErr(ix) = "Ok" /\ RefundRecordsErr(ix) = "Ok"
CheckedRefunds == {ix \in AllRefunds : CheckedRefund(ix)}

\* C8: a Refund that reaches the time check passes it exactly when
\* duration >= (now - time_started) / SECONDS_TO_DAYS, and fails with
\* FundraiserEnded when the elapsed whole days exceed duration.
C8_RefundWindow ==
    \A ix \in CheckedRefunds :
        LET f == FundraiseAt(ix.fundraise)
        IN  RefundErr(ix) # "FundraiserEnded"
                <=> f.duration >= (now - f.time_started) \div SECONDS_TO_DAYS

\* on the last admissible day (elapsed days = duration, neither 0) a Refund
\* is accepted
C8_Witness ==
    \E ix \in CheckedRefunds :
        LET f == FundraiseAt(ix.fundraise)
        IN  /\ f.duration = (now - f.time_started) \div SECONDS_TO_DAYS
            /\ f.duration > 0
            /\ RefundErr(ix) = "Ok"

\* C9: a Refund never succeeds while the vault holds amount_to_raise or more,
\* and one that reaches the balance check fails with TargetMet exactly then.
C9_RefundTargetMet ==
    \A ix \in AllRefunds :
        /\ (/\ RefundAccountsErr(ix) = "Ok"
            /\ FundraiseLoad(ix.fundraise)
            /\ token[ix.vault] >= FundraiseAt(ix.fundraise).amount_to_raise)
           => RefundErr(ix) # "Ok"
        /\ (CheckedRefund(ix) /\ RefundErr(ix) # "FundraiserEnded")
           => (RefundErr(ix) = "TargetMet"
                  <=> token[ix.vault] >= FundraiseAt(ix.fundraise).amount_to_raise)

\* a contributor's own Refund is rejected with TargetMet, the vault standing
\* exactly at the target
C9_Witness ==
    \E p \in Live :
        /\ RefundErr(OwnRefund(p)) = "TargetMet"
        /\ token[VaultOf(p[1])] = fundraise[p[1]].amount_to_raise

\* amount <= 10^decimals; once 8^decimals is beyond the integer range every
\* amount is
AtMostOneUnit(amount, mint) ==
    \/ 3 * Decimals(mint) >= Width
    \/ amount <= Pow(10, Decimals(mint))

\* C10: a Contribute whose amount is at most one whole unit of the asset,
\* 10^decimals, fails with ContributionTooSmall.
C10_BelowOneUnitTooSmall ==
    \A ix \in AllContributes :
        (ContributeAccountsErr(ix) = "Ok" /\ AtMostOneUnit(ix.amount, ix.mint))
            => ContributeErr(ix) = "ContributionTooSmall"

\* the per-contributor cap as the specification states it, in exact arithmetic
ExactCap(amount_to_raise) ==
    (amount_to_raise * MAX_CONTRIBUTION_PERCENTAGE_BPS) \div MAX_BPS

\* a Contribute that has passed every check made before the single-amount
\* cap: accounts, minimum size, record validation and asset
ReachesSizeCap(ix) ==
    /\ ContributeAccountsErr(ix) = "Ok"
    /\ ContributeErr(ix) \notin {"ContributionTooSmall", "InvalidAccountData",
                                 "InvalidAddress", "InvalidMintToRaise"}

\* C11: a Contribute that reaches the single-amount rule fails with
\* ContributionTooBig when its amount exceeds
\* amount_to_raise * MAX_CONTRIBUTION_PERCENTAGE_BPS / MAX_BPS, whatever the
\* contributor's record holds, and is not failed by that rule when its amount
\* is at most that cap.
C11_TooBigRule ==
    \A ix \in AllContributes :
        ReachesSizeCap(ix) =>
            (ContributeErr(ix) = "ContributionTooBig"
                <=> ix.amount > ExactCap(FundraiseAt(ix.fundraise).amount_to_raise))

\* a Contribute that has passed every check made before the cumulative cap:
\* accounts, the size rules, record validation, asset and window
ReachesCumulativeCap(ix) ==
    LET f == FundraiseAt(ix.fundraise)
    IN  /\ ContributeAccountsErr(ix) = "Ok"
        /\ ~ContributionTooSmall(ix.amount, ix.mint)
        /\ FundraiseLoad(ix.fundraise) /\ FundraiseValidate(ix.fundraise)
        /\ f.mint_to_raise = ix.mint
        /\ ~Panics(CapProduct(f.amount_to_raise))
        /\ ~ContributionTooBig(ix.amount, f.amount_to_raise)
        /\ ~ContributeEnded(f)

\* the amount the contributor's record holds before the Contribute (0 when
\* the record does not exist yet)
ExistingAmount(ix) == ContributorInitIfNeeded(ix).amount

\* C12: a Contribute that reaches the cumulative rule fails with
\* MaximumContributionsReached exactly when the contributor's existing amount
\* is at or over the cap or existing + amount exceeds the cap.  (A failed
\* instruction is no step: nothing changes.)
C12_CumulativeRule ==
    \A ix \in AllContributes :
        ReachesCumulativeCap(ix) =>
            LET cap == ExactCap(FundraiseAt(ix.fundraise).amount_to_raise)
            IN  ContributeErr(ix) = "MaximumContributionsReached"
                    <=> \/ ExistingAmount(ix) >= cap
                        \/ ExistingAmount(ix) + ix.amount > cap

\* a contributor below the cap is refused an amount that is itself within
\* the cap, because the total would pass it
C12_Witness ==
    \E ix \in AllContributes :
        /\ ReachesCumulativeCap(ix)
        /\ ExistingAmount(ix) > 0
        /\ ExistingAmount(ix) < ExactCap(FundraiseAt(ix.fundraise).amount_to_raise)
        /\ ContributeErr(ix) = "MaximumContributionsReached"

\* the token account of wallet k for the asset of the campaign of `maker`
WalletTokens(k, maker) ==
    AssociatedTokenAddress(Wallet(k), fundraise[maker].mint_to_raise)

\* C13: a successful Contribute of amount a by contributor C adds exactly a
\* to the campaign's current_amount, to the amount of the record of
\* (campaign, C) (0 when it did not exist) and to the vault, takes exactly a
\* from C's token account, and the record names that campaign and C.
C13_ContributeAddsAmount ==
    \A ix \in AllContributes :
        Contribute(ix) =>
            LET m == ix.fundraise[2]
                p == <<m, ix.authority>>
                old == IF contributor[p].exists THEN contributor[p].amount ELSE 0
            IN  /\ fundraise'[m].current_amount = fundraise[m].current_amount + ix.amount
                /\ contributor'[p].exists
                /\ contributor'[p].amount = old + ix.amount
                /\ contributor'[p].fundraise = FundraisePda(m)
                /\ contributor'[p].authority = ix.authority
                /\ token'[VaultOf(m)] = token[VaultOf(m)] + ix.amount
                /\ token'[WalletTokens(ix.authority, m)]
                       = token[WalletTokens(ix.authority, m)] - ix.amount

C13_ContributeEffect == [][C13_ContributeAddsAmount]_vars

\* wallets "A" and "B" have contributed 4 and 2 to campaign "A": the records,
\* the campaign total, the vault and the wallets all show it
C13_Witness ==
    /\ contributor[<<"A", "A">>].exists /\ contributor[<<"A", "A">>].amount = 4
    /\ contributor[<<"A", "B">>].exists /\ contributor[<<"A", "B">>].amount = 2
    /\ fundraise["A"].current_amount = 6
    /\ token[VaultOf("A")] = 6
    /\ token[WalletTokens("A", "A")] = BalA - 4
    /\ token[WalletTokens("B", "A")] = BalB - 2

\* C14: a successful Refund consuming a record of amount m takes exactly m
\* off the current_amount of the record's campaign, moves exactly m from
\* that campaign's vault to the token account of the record's contributor,
\* and destroys the record.
C14_RefundReturnsAmount ==
    \A ix \in AllRefunds :
        Refund(ix) =>
            LET p == PairOf(ix.contributor)
                rec == contributor[p]
                m == rec.fundraise[2]
                payee == WalletTokens(rec.authority, m)
            IN  /\ fundraise'[m].current_amount = fundraise[m].current_amount - rec.amount
                /\ token'[payee] = token[payee] + rec.amount
                /\ \/ token'[VaultOf(m)] = token[VaultOf(m)] - rec.amount
                   \/ token[VaultOf(m)] = rec.amount /\ token'[VaultOf(m)] = NoToken
                /\ ~contributor'[p].exists

C14_RefundEffect == [][C14_RefundReturnsAmount]_vars

\* C15: when a Contribute by a contributor without a record is followed by
\* the successful Refund of that record by the same contributor, with no
\* other instruction in between, the campaign's current_amount and the
\* contributor's token balance are what they were before the Contribute, and
\* the pair has no record.
C15_RoundTrip ==
    trail.kind = "undone" =>
        /\ fundraise[trail.pair[1]].current_amount = trail.current_amount
        /\ token[WalletTokens(trail.pair[2], trail.pair[1])] = trail.balance
        /\ ~contributor[trail.pair].exists

\* such a round trip has been made on a campaign that holds another
\* contributor's deposit
C15_Witness ==
    /\ trail.kind = "undone"
    /\ fundraise[trail.pair[1]].current_amount > 0
    /\ TokenExists(VaultOf(trail.pair[1]))

\* C16: a successful Refund closes the vault exactly when the vault balance
\* read before the transfer equals the refunded amount; otherwise the vault
\* stays open with its balance reduced by the refunded amount.
C16_VaultAfterRefund ==
    \A ix \in AllRefunds :
        Refund(ix) =>
            LET m == ContributorAt(ix.contributor).amount
            IN  /\ token'[ix.vault] = NoToken <=> token[ix.vault] = m
                /\ token[ix.vault] # m => token'[ix.vault] = token[ix.vault] - m

C16_VaultClosedWhenDrained == [][C16_VaultAfterRefund]_vars

\* the last Refund of a campaign has drained its vault and closed it: no
\* record is left and the campaign total is back at 0
C16_Witness ==
    /\ fundraise["A"].exists /\ fundraise["A"].current_amount = 0
    /\ token[VaultOf("A")] = NoToken
    /\ Live = {}

\* C17: a successful Initialize by maker M creates the campaign at the address
\* derived from M and stores maker = M, the supplied mint, amount_to_raise and
\* duration as given in the payload, current_amount = 0, time_started = the
\* clock value of the call, and the bump of the derivation.
C17_InitializeStores ==
    \A ix \in AllInitializes :
        Initialize(ix) =>
            /\ ix.fundraise = FundraisePda(ix.authority)
            /\ ~fundraise[ix.authority].exists
            /\ fundraise'[ix.authority] =
                   [exists |-> TRUE, maker |-> ix.authority, mint_to_raise |-> ix.mint,
                    amount_to_raise |-> ix.amount, current_amount |-> 0,
                    time_started |-> now, duration |-> ix.duration,
                    bump |-> FundraiseBump(ix.authority)]

C17_InitializeEffect == [][C17_InitializeStores]_vars

\* a campaign opened on the second day of the clock, with a payload whose two
\* fields differ
C17_Witness ==
    /\ fundraise["A"].exists
    /\ fundraise["A"].time_started = SECONDS_TO_DAYS
    /\ fundraise["A"].amount_to_raise = 40
    /\ fundraise["A"].duration = 1
    /\ fundraise["A"].current_amount = 0
    /\ token[VaultOf("A")] = 0

\* the minimum-raise floor of a mint, in exact arithmetic
ExactFloor(mint) == Pow(MIN_AMOUNT_TO_RAISE, Decimals(mint))

\* an Initialize that has passed every check made before the floor
ReachesFloor(ix) ==
    InitializeErr(ix) \notin {"NotSigner", "InvalidAccountOwner", "InvalidAddress",
                              "AccountAlreadyInUse", "InvalidSeeds", "Panic"}

\* C18: every existing campaign has amount_to_raise strictly above the
\* minimum-raise floor of its mint's decimals, and an Initialize that reaches
\* the floor check with amount_to_raise at or below the floor fails with
\* BelowMinRaiseAmount.  (A failed instruction is no step: no record and no
\* vault are left.)
C18_AboveFloor ==
    /\ \A m \in Keys :
          fundraise[m].exists =>
              fundraise[m].amount_to_raise > ExactFloor(fundraise[m].mint_to_raise)
    /\ \A ix \in AllInitializes :
          (ReachesFloor(ix) /\ ix.amount <= ExactFloor(ix.mint))
              => InitializeErr(ix) = "BelowMinRaiseAmount"

\* C19: once a campaign exists it keeps existing, and its maker, mint,
\* amount_to_raise, time_started, duration and bump never change.
C19_FieldsKept ==
    \A m \in Keys :
        fundraise[m].exists =>
            /\ fundraise'[m].exists
            /\ fundraise'[m].maker = fundraise[m].maker
            /\ fundraise'[m].mint_to_raise = fundraise[m].mint_to_raise
            /\ fundraise'[m].amount_to_raise = fundraise[m].amount_to_raise
            /\ fundraise'[m].time_started = fundraise[m].time_started
            /\ fundraise'[m].duration = fundraise[m].duration
            /\ fundraise'[m].bump = fundraise[m].bump

C19_CampaignImmutable == [][C19_FieldsKept]_vars

\* a campaign that has been contributed to and has seen the clock move two
\* days still carries what Initialize stored, and a new Initialize by its
\* maker is refused
C19_Witness ==
    /\ fundraise["A"].exists /\ fundraise["A"].time_started = 0
    /\ fundraise["A"].current_amount > 0
    /\ now = 2 * SECONDS_TO_DAYS
    /\ \E ix \in AllInitializes :
          ix.authority = "A" /\ InitializeErr(ix) = "AccountAlreadyInUse"

\* C20: the current_amount of an existing campaign changes only in a
\* successful Contribute on it, which adds the contributed amount, or in a
\* successful Refund on it, which subtracts the refunded amount; a successful
\* Claim leaves every campaign record as it was.
C20_RaisedChanges ==
    /\ \A m \in Keys :
          (fundraise[m].exists
             /\ fundraise'[m].current_amount # fundraise[m].current_amount) =>
              \/ \E ix \in AllContributes :
                    /\ Contribute(ix) /\ ix.fundraise = FundraisePda(m)
                    /\ fundraise'[m].current_amount
                           = fundraise[m].current_amount + ix.amount
              \/ \E ix \in AllRefunds :
                    /\ Refund(ix) /\ ix.fundraise = FundraisePda(m)
                    /\ fundraise'[m].current_amount
                           = fundraise[m].current_amount
                                 - ContributorAt(ix.contributor).amount
    /\ \A ix \in AllClaims : Claim(ix) => fundraise' = fundraise

C20_RaisedOnlyByContributeRefund == [][C20_RaisedChanges]_vars

\* a Claim has emptied the vault and the campaign total still shows the
\* contributions made
C20_Witness ==
    /\ fundraise["A"].exists /\ fundraise["A"].current_amount > 0
    /\ token[VaultOf("A")] = 0
    /\ \E k \in Keys : token[WalletTokens(k, "A")] >= fundraise["A"].amount_to_raise

\* C21: a Contribute, a Refund or a Claim succeeds only when the mint account
\* it is given is the mint_to_raise stored in the campaign it names.  (A
\* failed instruction is no step: it moves no funds.)
C21_AssetMatches ==
    /\ \A ix \in AllContributes :
          ContributeErr(ix) = "Ok" => ix.mint = FundraiseAt(ix.fundraise).mint_to_raise
    /\ \A ix \in AllRefunds :
          RefundErr(ix) = "Ok" => ix.mint = FundraiseAt(ix.fundraise).mint_to_raise
    /\ \A ix \in AllClaims :
          ClaimErr(ix) = "Ok" => ix.mint = FundraiseAt(ix.fundraise).mint_to_raise

\* a Claim signed by a wallet other than the campaign's stored maker, with
\* the campaign, its vault and the signer's own token account
ByStranger(ix) ==
    /\ ix.fundraise \in FundAddrs /\ FundraiseAt(ix.fundraise).exists
    /\ ix.authority # FundraiseAt(ix.fundraise).maker
    /\ ix.signed /\ MintInterfaceCheck(ix.mint)
    /\ ix.vault = AssociatedTokenAddress(ix.fundraise, ix.mint) /\ TokenExists(ix.vault)
    /\ ix.token_account = AssociatedTokenAddress(Wallet(ix.authority), ix.mint)

\* C22: Claim does not require the signer to be the stored maker: with the
\* vault at or above amount_to_raise, a Claim signed by any other wallet S
\* succeeds, and it pays the whole vault balance into S's token account.
C22_StrangerSucceeds ==
    \A ix \in AllClaims :
        (ByStranger(ix) /\ token[ix.vault] >= FundraiseAt(ix.fundraise).amount_to_raise)
            => ClaimErr(ix) = "Ok"

C22_StrangerPaid ==
    \A ix \in AllClaims :
        (Claim(ix) /\ ByStranger(ix)) =>
            /\ token'[AssociatedTokenAddress(Wallet(ix.authority), ix.mint)]
                   = token[AssociatedTokenAddress(Wallet(ix.authority), ix.mint)]
                         + token[ix.vault]
            /\ token'[ix.vault] = 0

C22_ClaimByAnySigner == [](C22_StrangerSucceeds) /\ [][C22_StrangerPaid]_vars

\* wallet "B", which is not the maker, holds the whole target of campaign
\* "A" and more than all it ever owned, the vault standing empty
C22_Witness ==
    /\ fundraise["A"].exists /\ fundraise["A"].maker = "A"
    /\ token[VaultOf("A")] = 0
    /\ token[WalletTokens("B", "A")] >= fundraise["A"].amount_to_raise
    /\ token[WalletTokens("B", "A")] > BalB

\* what the two wallets hold of mint "m1", in their token accounts and in
\* their live records
HeldByWallets ==
    token[AssociatedTokenAddress(Wallet("A"), "m1")]
        + token[AssociatedTokenAddress(Wallet("B"), "m1")] + SumAmount(Live)

\* a Claim has paid out before: the wallets hold more than they ever owned,
\* which only a Claim brings about (the code itself keeps no such marker)
ClaimedBefore == HeldByWallets > BalA + BalB

\* C23: a successful Claim leaves the campaign record as it was and the vault
\* in existence with balance 0, and after a Claim has paid out, a Claim on a
\* vault that again holds amount_to_raise or more succeeds like the first.
C23_ClaimKeepsAccounts ==
    \A ix \in AllClaims :
        Claim(ix) =>
            /\ fundraise' = fundraise
            /\ contributor' = contributor
            /\ token'[ix.vault] = 0

C23_ClaimableAgain ==
    \A ix \in AllClaims :
        (/\ ClaimedBefore
         /\ ClaimAccountsErr(ix) = "Ok" /\ FundraiseLoad(ix.fundraise)
         /\ token[ix.vault] >= FundraiseAt(ix.fundraise).amount_to_raise)
            => ClaimErr(ix) = "Ok"

\* the wallets' holdings change only in a Claim, which raises them
C23_HoldingsRaisedByClaim ==
    HeldByWallets' # HeldByWallets =>
        /\ HeldByWallets' > HeldByWallets
        /\ \E ix \in AllClaims : Claim(ix)

C23_RepeatedClaim ==
    /\ [](C23_ClaimableAgain)
    /\ [][C23_ClaimKeepsAccounts /\ C23_HoldingsRaisedByClaim]_vars

\* two Claims have been paid, one to each wallet, each of the whole target:
\* the second emptied a vault that was refilled after the first
C23_Witness ==
    /\ fundraise["A"].exists /\ fundraise["A"].mint_to_raise = "m1"
    /\ token[VaultOf("A")] = 0
    /\ token[WalletTokens("A", "A")] >= fundraise["A"].amount_to_raise
    /\ token[WalletTokens("B", "A")] >= fundraise["A"].amount_to_raise

\* C25: a Contributor record comes into existence only in a successful
\* Contribute of its pair, holding exactly the amount of that contribution
\* (0 plus the amount) and naming the campaign and the contributor; a
\* successful Contribute of a pair whose record exists adds its amount to the
\* record's amount and changes nothing else in the record.
C25_CreatedOnFirst ==
    \A p \in Keys \X Keys :
        (~contributor[p].exists /\ contributor'[p].exists) =>
            \E ix \in AllContributes :
                /\ Contribute(ix)
                /\ ix.fundraise = FundraisePda(p[1]) /\ ix.authority = p[2]
                /\ contributor'[p].amount = 0 + ix.amount
                /\ contributor'[p].fundraise = ix.fundraise
                /\ contributor'[p].authority = ix.authority

C25_AddedToLater ==
    \A ix \in AllContributes :
        LET p == <<ix.fundraise[2], ix.authority>>
        IN  (Contribute(ix) /\ contributor[p].exists) =>
                contributor'[p] =
                    [contributor[p] EXCEPT !.amount = contributor[p].amount + ix.amount]

C25_RecordLifecycle == [][C25_CreatedOnFirst /\ C25_AddedToLater]_vars

\* the record of a pair exists with a positive amount, and a further
\* Contribute of that pair is accepted
C25_Witness ==
    \E ix \in AllContributes :
        /\ ContributeErr(ix) = "Ok"
        /\ contributor[<<ix.fundraise[2], ix.authority>>].exists
        /\ contributor[<<ix.fundraise[2], ix.authority>>].amount > 0

\* C26: there is at most one campaign per maker.  An Initialize succeeds only
\* at the address derived from its signer and only while that maker has no
\* campaign; one signed by a maker whose campaign exists fails, whatever
\* accounts it names; and a successful Initialize leaves every existing
\* campaign as it was.
C26_SecondInitializeFails ==
    /\ \A m \in Keys : fundraise[m].exists => fundraise[m].maker = m
    /\ \A ix \in AllInitializes :
          /\ fundraise[ix.authority].exists => InitializeErr(ix) # "Ok"
          /\ InitializeErr(ix) = "Ok" => ix.fundraise = FundraisePda(ix.authority)

C26_OthersKept ==
    \A ix \in AllInitializes :
        Initialize(ix) =>
            \A m \in Keys : fundraise[m].exists => fundraise'[m] = fundraise[m]

C26_OneCampaignPerMaker ==
    [](C26_SecondInitializeFails) /\ [][C26_OthersKept]_vars

\* both makers have a campaign, the one of "A" contributed to and its vault
\* closed again by a Refund, and every Initialize signed by "A" is refused
C26_Witness ==
    /\ fundraise["A"].exists /\ fundraise["B"].exists
    /\ ~TokenExists(VaultOf("A"))
    /\ \A ix \in AllInitializes : ix.authority = "A" => InitializeErr(ix) # "Ok"
    /\ \E ix \in AllInitializes :
          ix.authority = "A" /\ InitializeErr(ix) = "AccountAlreadyInUse"

\* every instruction the properties range over, whatever its payload
AllInputs == AllInitializes \cup AllContributes \cup AllClaims \cup AllRefunds

\* the handler the first payload byte stands for
ByteRoute(data) ==
    IF Len(data) = 0 THEN "none"
    ELSE IF data[1] = 0 THEN "Initialize"
    ELSE IF data[1] = 1 THEN "Contribute"
    ELSE IF data[1] = 2 THEN "Refund"
    ELSE IF data[1] = 3 THEN "Claim"
    ELSE "none"

\* C27: the result of an instruction is that of the handler its first
\* payload byte selects, 0 Initialize, 1 Contribute, 2 Refund, 3 Claim; with
\* an empty payload or any other first byte it is InvalidInstructionData,
\* whatever the handlers would say of its accounts.
C27_Dispatch ==
    \A ix \in AllInputs :
        ProcessInstructionErr(ix) =
            CASE ByteRoute(ix.data) = "Initialize" -> InitializeErr(ix)
              [] ByteRoute(ix.data) = "Contribute" -> ContributeErr(ix)
              [] ByteRoute(ix.data) = "Refund" -> RefundErr(ix)
              [] ByteRoute(ix.data) = "Claim" -> ClaimErr(ix)
              [] OTHER -> "InvalidInstructionData"

\* a Refund is accepted on accounts Claim would refuse, a Claim is answered
\* by its own handler, and an account list a handler would accept is refused
\* for its payload, empty or of an unknown first byte
C27_Witness ==
    /\ \E ix \in AllRefunds :
          ProcessInstructionErr(ix) = "Ok" /\ ClaimErr(ix) # "Ok"
    /\ \E ix \in AllClaims :
          ProcessInstructionErr(ix) = "TargetNotMet" /\ RefundErr(ix) # "TargetNotMet"
    /\ \E ix \in AllContributes :
          /\ ix.data = <<>> /\ ContributeErr(ix) = "Ok"
          /\ ProcessInstructionErr(ix) = "InvalidInstructionData"
    /\ \E ix \in AllContributes :
          /\ ix.data = <<UnknownByte>> /\ ContributeErr(ix) = "Ok"
          /\ ProcessInstructionErr(ix) = "InvalidInstructionData"

\* the same account list and payload, the first account not having signed
Unsigned(ix) == [ix EXCEPT !.signed = FALSE]

\* C28: an Initialize, Contribute, Refund or Claim whose first account did
\* not sign fails with NotSigner, whatever else its accounts and payload
\* are.  (A failed instruction is no step: no state changes.)
C28_NotSigner ==
    /\ \A ix \in AllInitializes : InitializeErr(Unsigned(ix)) = "NotSigner"
    /\ \A ix \in AllContributes : ContributeErr(Unsigned(ix)) = "NotSigner"
    /\ \A ix \in AllRefunds : RefundErr(Unsigned(ix)) = "NotSigner"
    /\ \A ix \in AllClaims : ClaimErr(Unsigned(ix)) = "NotSigner"

\* a Contribute and a Refund that would be accepted, an Initialize that
\* would be accepted and a Claim whose accounts pass are each refused with
\* NotSigner once the signature is missing
C28_Witness ==
    /\ \E ix \in AllContributes :
          ContributeErr(ix) = "Ok" /\ ContributeErr(Unsigned(ix)) = "NotSigner"
    /\ \E ix \in AllRefunds :
          RefundErr(ix) = "Ok" /\ RefundErr(Unsigned(ix)) = "NotSigner"
    /\ \E ix \in AllInitializes :
          InitializeErr(ix) = "Ok" /\ InitializeErr(Unsigned(ix)) = "NotSigner"
    /\ \E ix \in AllClaims :
          ClaimErr(ix) = "TargetNotMet" /\ ClaimErr(Unsigned(ix)) = "NotSigner"

\* C29: when a successful Refund closes the vault, the vault's rent is
\* credited to the maker stored in the campaign, whatever account the caller
\* passes in the maker position, and to nobody else.
C29_RentCredited ==
    \A ix \in AllRefunds :
        (Refund(ix) /\ token'[ix.vault] = NoToken) =>
            LET m == FundraiseAt(ix.fundraise).maker
            IN  rent' = [rent EXCEPT ![m] = @ + 1]

C29_RentToMaker == [][C29_RentCredited]_vars

\* a Contribute whose accounts and campaign record pass validation, on a
\* campaign whose cap is computed without overflow
ReachesRules(ix) ==
    /\ ContributeAccountsErr(ix) = "Ok"
    /\ FundraiseLoad(ix.fundraise) /\ FundraiseValidate(ix.fundraise)
    /\ InRange(CapProduct(FundraiseAt(ix.fundraise).amount_to_raise))

\* the error of the first violated condition in the order asset, window,
\* minimum size, single-amount cap, cumulative cap; each condition as the
\* handler evaluates it
FirstInOrder(ix) ==
    LET f == FundraiseAt(ix.fundraise)
    IN  IF f.mint_to_raise # ix.mint THEN "InvalidMintToRaise"
        ELSE IF ContributeEnded(f) THEN "FundraiserEnded"
        ELSE IF ContributionTooSmall(ix.amount, ix.mint) THEN "ContributionTooSmall"
        ELSE IF ContributionTooBig(ix.amount, f.amount_to_raise) THEN "ContributionTooBig"
        ELSE IF MaximumContributionsReached(ExistingAmount(ix), ix.amount, f.amount_to_raise)
            THEN "MaximumContributionsReached"
        ELSE "none"

\* C30: a Contribute that violates one or several of the conditions fails
\* with the error of the first violated one in the order InvalidMintToRaise,
\* FundraiserEnded, ContributionTooSmall, ContributionTooBig,
\* MaximumContributionsReached.
C30_ErrorOrder ==
    \A ix \in AllContributes :
        (ReachesRules(ix) /\ FirstInOrder(ix) # "none")
            => ContributeErr(ix) = FirstInOrder(ix)

\* C31: a Refund succeeds only when the Contributor record it consumes names
\* the campaign passed in the same call, so that a record of one campaign
\* cannot draw on the vault or the current_amount of another.
C31_RecordOfCampaign ==
    \A ix \in AllRefunds :
        RefundErr(ix) = "Ok" => ContributorAt(ix.contributor).fundraise = ix.fundraise

\* C32: once a Claim has succeeded for a campaign, no Refund succeeds for a
\* Contributor record that was live at that Claim, whatever has been
\* deposited into the vault since.
C32_NoRefundAfterClaim ==
    \A ix \in AllRefunds :
        PairOf(ix.contributor) \in claimed_over => RefundErr(ix) # "Ok"

\* some Claim, resp. some Refund, on campaign f with mint mt would succeed
ClaimCanSucceed(f, mt) ==
    \E ix \in AllClaims : ix.fundraise = f /\ ix.mint = mt /\ ClaimErr(ix) = "Ok"
RefundCanSucceed(f, mt) ==
    \E ix \in AllRefunds : ix.fundraise = f /\ ix.mint = mt /\ RefundErr(ix) = "Ok"

\* C33: in no reachable state can both a Claim and a Refund succeed for the
\* same campaign and mint: Claim needs the vault at or above amount_to_raise,
\* Refund needs the same vault below it.
C33_ClaimRefundExclusive ==
    \A f \in FundAddrs, mt \in Mints :
        ~(ClaimCanSucceed(f, mt) /\ RefundCanSucceed(f, mt))

\* with the vault exactly at the target and a record live, a Claim would
\* succeed and the record's own Refund is refused with TargetMet
C33_Witness ==
    \E p \in Live :
        /\ token[VaultOf(p[1])] = fundraise[p[1]].amount_to_raise
        /\ ClaimCanSucceed(FundraisePda(p[1]), fundraise[p[1]].mint_to_raise)
        /\ RefundErr(OwnRefund(p)) = "TargetMet"

\* C34: at every clock value at which Contribute's time check passes for a
\* campaign, Refund's time check passes for it too, so no deposit is accepted
\* at a moment when refunds are rejected as FundraiserEnded.
C34_RefundOpenWhileContributeOpen ==
    \A m \in Keys :
        (fundraise[m].exists /\ ~ContributeEnded(fundraise[m]))
            => ~RefundEnded(fundraise[m])

\* the units an account holds, none when it does not exist
Units(tok, a) == IF tok[a] = NoToken THEN 0 ELSE tok[a]

\* the token accounts of mint mt that belong to the campaigns (vaults) and to
\* the wallets that call the program (makers and contributors)
PartyAccounts(mt) ==
    {AssociatedTokenAddress(Wallet(k), mt) : k \in Keys}
        \cup {AssociatedTokenAddress(f, mt) : f \in FundAddrs}

RECURSIVE SumUnits(_, _)
SumUnits(tok, as) ==
    IF as = {} THEN 0
    ELSE LET a == CHOOSE b \in as : TRUE
         IN  Units(tok, a) + SumUnits(tok, as \ {a})

\* the units of mint mt held across vaults, contributors and makers
Held(tok, mt) == SumUnits(tok, PartyAccounts(mt))

HeldKept == \A mt \in Mints : Held(token', mt) = Held(token, mt)

\* C35: every successful Initialize, Contribute, Refund and Claim leaves the
\* number of units of each mint held across the vaults, the contributors'
\* accounts and the makers' accounts unchanged, and the vault gains or loses
\* exactly the amount recorded: the payload amount added to the record by
\* Contribute, the amount of the record consumed by Refund, the whole balance
\* read by Claim.
C35_HandlersMoveOnly ==
    /\ \A ix \in AllInitializes : Initialize(ix) => HeldKept
    /\ \A ix \in AllContributes :
           Contribute(ix) =>
               /\ HeldKept
               /\ Units(token', ix.vault) - Units(token, ix.vault)
                      = contributor'[PairOf(ix.contributor)].amount
                            - (IF ContributorAt(ix.contributor).exists
                               THEN ContributorAt(ix.contributor).amount ELSE 0)
    /\ \A ix \in AllRefunds :
           Refund(ix) =>
               /\ HeldKept
               /\ Units(token, ix.vault) - Units(token', ix.vault)
                      = ContributorAt(ix.contributor).amount
    /\ \A ix \in AllClaims :
           Claim(ix) =>
               /\ HeldKept
               /\ Units(token', ix.token_account) - Units(token, ix.token_account)
                      = Units(token, ix.vault)

C35_Conservation == [][C35_HandlersMoveOnly]_vars

\* a contribution has been made and refunded, and the parties hold between
\* them exactly what the two wallets started with
C35_Witness ==
    /\ trail.kind = "undone"
    /\ fundraise["A"].exists
    /\ Held(token, "m1") = BalA + BalB

\* C36: in every state in which a Refund would succeed, the amount of the
\* Contributor record it consumes is at most the current_amount of the
\* campaign it is submitted for, so current_amount - amount stays in range.
C36_RefundWithinRaised ==
    \A ix \in AllRefunds :
        RefundErr(ix) = "Ok" =>
            ContributorAt(ix.contributor).amount <= FundraiseAt(ix.fundraise).current_amount

\* C37: for every amount_to_raise a campaign holds, the product
\* amount_to_raise * MAX_CONTRIBUTION_PERCENTAGE_BPS stays in the unsigned
\* range and the cap Contribute compares against is
\* floor(amount_to_raise * MAX_CONTRIBUTION_PERCENTAGE_BPS / MAX_BPS).
C37_CapExact ==
    \A m \in Keys :
        fundraise[m].exists =>
            /\ InRange(CapProduct(fundraise[m].amount_to_raise))
            /\ ContributionCap(fundraise[m].amount_to_raise)
                   = ExactCap(fundraise[m].amount_to_raise)

\* C38: for every duration a campaign holds, the time checks of Contribute
\* and Refund give the result of comparing the elapsed whole days with the
\* unsigned duration: the conversion to a signed integer does not change
\* the value compared.
C38_DurationUnsigned ==
    \A m \in Keys :
        LET f == fundraise[m]
        IN  f.exists =>
                /\ AsSigned(f.duration) = f.duration
                /\ ContributeEnded(f)
                       <=> (now # f.time_started /\ f.duration > ElapsedDays(f))
                /\ RefundEnded(f) <=> f.duration < ElapsedDays(f)

\* the Contributes the pair just refunded submits for itself
ContributesOfTrail ==
    {ix \in AllContributes :
        /\ ix.authority = trail.pair[2]
        /\ ix.fundraise = FundraisePda(trail.pair[1])
        /\ PairOf(ix.contributor) = trail.pair}

\* right after its Refund, with the vault still open, the pair has no record
\* and its Contribute is judged as that of a contributor with nothing
\* recorded: one that passes the checks before the cumulative cap and is
\* covered by the wallet succeeds
C39_CanContributeAgain ==
    (trail.kind = "undone" /\ TokenExists(VaultOf(trail.pair[1]))) =>
        /\ ~contributor[trail.pair].exists
        /\ \A ix \in ContributesOfTrail :
               (ReachesCumulativeCap(ix) /\ token[ix.token_account] >= ix.amount)
                   => ContributeErr(ix) = "Ok"

\* the record that Contribute creates holds the new amount alone
C39_RecordAfresh ==
    \A ix \in AllContributes :
        (/\ trail.kind = "undone"
         /\ PairOf(ix.contributor) = trail.pair
         /\ Contribute(ix)) =>
            /\ contributor'[trail.pair].exists
            /\ contributor'[trail.pair].amount = 0 + ix.amount
            /\ contributor'[trail.pair].fundraise = ix.fundraise
            /\ contributor'[trail.pair].authority = ix.authority

\* C39: after a successful Refund that left the vault open the same
\* contributor can Contribute again to the same campaign, and the Contributor
\* record is created afresh: its amount is 0 plus the new contribution and
\* nothing of the refunded record is carried over.
C39_ContributeAfterRefund == [](C39_CanContributeAgain) /\ [][C39_RecordAfresh]_vars

\* a pair has contributed, been refunded and contributed again, to a campaign
\* whose vault stayed open throughout
C39_Witness ==
    /\ trail.kind = "first"
    /\ trail.again
    /\ contributor[trail.pair].exists
    /\ contributor[trail.pair].amount < token[VaultOf(trail.pair[1])]

\* every instruction of the three kinds submitted for the campaign of maker m
OnCampaign(m) ==
    {ix \in AllContributes \cup AllRefunds \cup AllClaims : ix.fundraise = FundraisePda(m)}

\* the result its handler gives an instruction
HandlerErr(ix) ==
    IF ix \in AllContributes THEN ContributeErr(ix)
    ELSE IF ix \in AllRefunds THEN RefundErr(ix)
    ELSE IF ix \in AllClaims THEN ClaimErr(ix)
    ELSE InitializeErr(ix)

\* C40: while the campaign record exists and its vault, closed by a Refund,
\* has not been recreated, every Contribute, Refund and Claim on the campaign
\* fails and so does every Initialize of the campaign.
C40_DeadAfterVaultClosed ==
    \A m \in Keys :
        (fundraise[m].exists /\ ~TokenExists(VaultOf(m))) =>
            /\ \A ix \in OnCampaign(m) : HandlerErr(ix) # "Ok"
            /\ \A ix \in AllInitializes :
                   ix.fundraise = FundraisePda(m) => InitializeErr(ix) # "Ok"

====
